---- MODULE Spec2Model ----
(***************************************************************************)
(* Model of the jinn-db storage engine (src/lib/Database.js, lines 1-837). *)
(*                                                                         *)
(* The database file is modelled byte by byte: `hdr` is the 22-byte header *)
(* (as its four 32-bit words) and `data` the bytes that follow it.  A      *)
(* record is encoded as the byte string  { <id digit> <colour> x* }  whose *)
(* length depends on the record, and is padded with spaces to the block    *)
(* size.  Record ids are the integer-like keys "0", "1", ... of the test   *)
(* data; JavaScript enumerates such keys of an object in ascending numeric *)
(* order, which is the order `for (id in items)` and Object.keys use.      *)
(*                                                                         *)
(* One action models one public operation up to the point where all the    *)
(* I/O it issued has completed.  Reads that the code issues concurrently   *)
(* (Promise.map without a concurrency limit) complete in an order chosen   *)
(* nondeterministically by the action.                                     *)
(***************************************************************************)
EXTENDS Integers, Sequences, FiniteSets, TLC

VARIABLES fd, hdr, data, items, cache, cacheHoles, blocks, blockSize,
          blockHoles, maxCacheSize, last, nops, truth, tasks

vars == <<fd, hdr, data, items, cache, cacheHoles, blocks, blockSize,
          blockHoles, maxCacheSize, last, nops, truth, tasks>>

dbvars == <<hdr, data, items, cache, cacheHoles, blocks, blockSize,
            blockHoles, maxCacheSize>>

\* `last` is the operation that has just completed (or the update that is
\* running), with its arguments and result; `nops` counts the operations of
\* the run; `truth` is a history variable: the latest inserted content of
\* every record that has not been removed; `tasks` are the re-inserts of the
\* update that is running.

(* ---------------------------------------------------------------- bounds *)
NumIds == 3
MaxPad == 1
MaxCacheSize == 8
MaxOps == 4
\* The largest number of records an update of the model re-inserts.
MaxUpdated == 2
\* The longest array handed to insert.
MaxArray == 3

(* ------------------------------------------------------------- constants *)
HEADER_LENGTH == 22

Ids == 0 .. NumIds - 1
Colors == {"r", "y"}
\* The contents a record can have: a colour and the number of extra bytes its
\* encoding takes.
Contents == {<<"r", 0>>, <<"y", MaxPad>>}
Items == {[id |-> i, color |-> c[1], pad |-> c[2]] : i \in Ids, c \in Contents}
Digits == <<"0", "1", "2", "3", "4", "5", "6", "7", "8", "9">>

Undefined == [undefined |-> TRUE]
Corrupt == [corrupt |-> TRUE]
NoHeader == <<>>

Min(a, b) == IF a < b THEN a ELSE b
Max(a, b) == IF a > b THEN a ELSE b

(* ------------------------------------------------------------ file bytes *)
\* fs.write(fd, buffer, 0, buffer.length, position): bytes past the old end
\* of file that are not written read back as NUL ("~").
WriteAt(f, off, buf) ==
  [i \in 1 .. Max(Len(f), off + Len(buf)) |->
     IF i > off /\ i <= off + Len(buf) THEN buf[i - off]
     ELSE IF i <= Len(f) THEN f[i] ELSE "~"]

\* fs.read(fd, buffer, 0, length, position): a read past the end of file is
\* short and leaves the rest of the buffer as it was.
ReadAt(f, off, length, buf) ==
  [i \in 1 .. Len(buf) |->
     IF i <= length /\ off + i <= Len(f) THEN f[off + i] ELSE buf[i]]

\* fs.ftruncate(fd, len)
Truncate(f, n) == [i \in 1 .. n |-> IF i <= Len(f) THEN f[i] ELSE "~"]

\* new Buffer(n): uninitialised memory ("?" is a byte of unknown content).
NewBuffer(n) == [i \in 1 .. n |-> "?"]

blankEntry(n) == [i \in 1 .. n |-> " "]

(* ----------------------------------------------------------- block codec *)
\* JSON.stringify(item) followed by compress(): the encoded bytes.
Stringify(item) ==
  <<"{", Digits[item.id + 1], item.color>> \o [i \in 1 .. item.pad |-> "x"]
     \o <<"}">>

EncLen(item) == Len(Stringify(item))

\* compressedBuffer.copy(buffer): copies as much as fits.
CopyInto(src, buf) ==
  [i \in 1 .. Len(buf) |-> IF i <= Len(src) THEN src[i] ELSE buf[i]]

IndexOf(s, ch) ==
  IF \E i \in 1 .. Len(s) : s[i] = ch
  THEN CHOOSE i \in 1 .. Len(s) : s[i] = ch /\ \A j \in 1 .. i - 1 : s[j] # ch
  ELSE 0

LastIndexOf(s, ch) ==
  IF \E i \in 1 .. Len(s) : s[i] = ch
  THEN CHOOSE i \in 1 .. Len(s) :
         s[i] = ch /\ \A j \in i + 1 .. Len(s) : s[j] # ch
  ELSE 0

\* JSON.parse of the text between the first "{" and the last "}".
ParseItem(s) ==
  IF /\ Len(s) >= 4
     /\ s[1] = "{"
     /\ s[Len(s)] = "}"
     /\ \E k \in Ids : Digits[k + 1] = s[2]
     /\ s[3] \in Colors
     /\ \A i \in 4 .. Len(s) - 1 : s[i] = "x"
     /\ <<s[3], Len(s) - 4>> \in Contents
  THEN [id |-> CHOOSE k \in Ids : Digits[k + 1] = s[2],
        color |-> s[3], pad |-> Len(s) - 4]
  ELSE Corrupt

Decode(buf) ==
  LET f == IndexOf(buf, "{")
      l == LastIndexOf(buf, "}")
  IN  IF f = 0 \/ l = 0 \/ l < f THEN Corrupt ELSE ParseItem(SubSeq(buf, f, l))

readBufferFromBlock(d, block, buffer, length) ==
  ReadAt(d.data, block * d.blockSize, length, buffer)

readFromBlock(d, block) ==
  Decode(readBufferFromBlock(d, block, NewBuffer(d.blockSize), d.blockSize))

writeBufferToBlock(d, block, buffer, bsz) ==
  [d EXCEPT !.data = WriteAt(@, block * bsz, buffer)]

\* writeToBlock with the record written one block too far.
writeToNextBlock(d, block, item, bsz) ==
  writeBufferToBlock(d, block + 1, CopyInto(Stringify(item), blankEntry(bsz)),
                     bsz)

writeToBlock(d, block, item, bsz) ==
  writeBufferToBlock(d, block, CopyInto(Stringify(item), blankEntry(bsz)), bsz)

(* ---------------------------------------------------------- header codec *)
\* x >> 16 >> 16 and x & 0xFFFFFFFF on values below 2^31.
UpperWord(x) == (x \div 65536) \div 65536
LowerWord(x) == x
\* (u << 16 << 16) + l in 32-bit arithmetic.
JoinWords(u, l) == ((((u % 65536) * 65536) % 65536) * 65536) + l

EncodeHeader(d) ==
  [magic |-> "jinn", version |-> 1,
   bsU |-> UpperWord(d.blockSize), bsL |-> LowerWord(d.blockSize),
   nU |-> UpperWord(d.blocks), nL |-> LowerWord(d.blocks)]

writeHeader(d) == [d EXCEPT !.hdr = EncodeHeader(d)]

\* readHeader throws when the file has no valid header.
HeaderValid(h) == h # NoHeader /\ h.magic = "jinn" /\ h.version = 1

readHeader(d) ==
  [d EXCEPT !.blockSize = JoinWords(d.hdr.bsU, d.hdr.bsL),
            !.blocks = JoinWords(d.hdr.nU, d.hdr.nL)]

\* Buffer.writeUInt32LE: the four bytes of a word, least significant first.
UInt32LE(x) ==
  <<x % 256, (x \div 256) % 256, (x \div 65536) % 256,
    (x \div 16777216) % 256>>

\* writeHeader, lines 303-306 and 307-310: the bytes 6..13 and 14..21 of the
\* header, the upper word at offsets 6 and 14, the lower at 10 and 18.
BlockSizeBytes(h) == UInt32LE(h.bsU) \o UInt32LE(h.bsL)
NumBlocksBytes(h) == UInt32LE(h.nU) \o UInt32LE(h.nL)

(* ------------------------------------------------------- index and cache *)
ItemData(block, cached, cacheIndex) ==
  [block |-> block, cached |-> cached, cacheIndex |-> cacheIndex]

Put(m, k, v) == [x \in DOMAIN m \cup {k} |-> IF x = k THEN v ELSE m[x]]
Del(m, k) == [x \in DOMAIN m \ {k} |-> m[x]]

\* cache[i] for a 0-based index i.
CacheAt(c, i) == IF i >= 0 /\ i < Len(c) THEN c[i + 1] ELSE Undefined

\* cache[i] = item for a 0-based index i.
CacheSet(c, i, item) ==
  [j \in 1 .. Max(Len(c), i + 1) |->
     IF j = i + 1 THEN item ELSE IF j <= Len(c) THEN c[j] ELSE Undefined]

Pop(c) == SubSeq(c, 1, Len(c) - 1)

\* The keys of an object with integer-like keys, in enumeration order.
RECURSIVE Keys(_)
Keys(S) ==
  IF S = {} THEN <<>>
  ELSE LET m == CHOOSE x \in S : \A y \in S : x <= y
       IN  <<m>> \o Keys(S \ {m})

\* The orders in which a set of concurrently issued reads can complete.
Orders(S) ==
  {p \in [1 .. Cardinality(S) -> S] :
     \A i, j \in 1 .. Cardinality(S) : i # j => p[i] # p[j]}

DB ==
  [hdr |-> hdr, data |-> data, items |-> items, cache |-> cache,
   cacheHoles |-> cacheHoles, blocks |-> blocks, blockSize |-> blockSize,
   blockHoles |-> blockHoles, maxCacheSize |-> maxCacheSize]

Install(d) ==
  /\ hdr' = d.hdr
  /\ data' = d.data
  /\ items' = d.items
  /\ cache' = d.cache
  /\ cacheHoles' = d.cacheHoles
  /\ blocks' = d.blocks
  /\ blockSize' = d.blockSize
  /\ blockHoles' = d.blockHoles
  /\ maxCacheSize' = d.maxCacheSize

\* The outcome of an operation: the promise is fulfilled (ok), is rejected,
\* or never settles because the code loops forever (hang).
Done(d) == [db |-> d, ok |-> TRUE, hang |-> FALSE]
Failed(d) == [db |-> d, ok |-> FALSE, hang |-> FALSE]
Hang(d) == [db |-> d, ok |-> FALSE, hang |-> TRUE]

(* ---------------------------------------------------------------- resize *)
RECURSIVE NextPow(_, _)
NextPow(p, num) == IF p >= num THEN p ELSE NextPow(2 * p, num)

\* The exponents k below 31 for which the quotient of the doubles Math.log(2^k)
\* and Math.log(2) is above k: Math.log(536870912) / Math.log(2) is
\* 29.000000000000004.
RoundedUp == {29}

\* The least k with p * 2^k >= num.
RECURSIVE Exponent(_, _)
Exponent(p, num) == IF p >= num THEN 0 ELSE 1 + Exponent(2 * p, num)

\* Math.pow(2, Math.ceil(Math.log(num) / Math.log(2))), in double arithmetic.
nextPowerOfTwo(num) ==
  LET k == Exponent(1, num)
  IN  IF num = 2 ^ k /\ k \in RoundedUp THEN 2 ^ (k + 1) ELSE 2 ^ k

\* One step of Promise.mapSeries(moveIndices, ...): read the block at its old
\* offset into the blanked buffer, write the buffer at the new offset.
MoveEntry(f, index, oldSize, newSize) ==
  WriteAt(f, index * newSize,
          ReadAt(f, index * oldSize, Min(oldSize, newSize),
                 blankEntry(newSize)))

RECURSIVE MoveEntries(_, _, _, _)
MoveEntries(f, moveIndices, oldSize, newSize) ==
  IF moveIndices = <<>> THEN f
  ELSE MoveEntries(MoveEntry(f, Head(moveIndices), oldSize, newSize),
                   Tail(moveIndices), oldSize, newSize)

\* The blocks beyond the cache: from the bottom when the block size grows,
\* from the top when it shrinks.
MoveIndices(d, newSize) ==
  LET n == d.blocks - Len(d.cache)
  IN  IF newSize > d.blockSize
      THEN [k \in 1 .. n |-> d.blocks - k]
      ELSE [k \in 1 .. n |-> Len(d.cache) + k - 1]

ResizeFileIO(d, newSize) ==
  IF d.blocks > Len(d.cache)
  THEN LET moved == MoveEntries(d.data, MoveIndices(d, newSize),
                                d.blockSize, newSize)
       IN  [d EXCEPT !.data = IF newSize <= d.blockSize
                               THEN Truncate(moved, d.blocks * newSize)
                               ELSE moved]
  ELSE d

\* Promise.map(cache, ...) with concurrency 1: every cached item is written
\* back at its block; an entry without index data makes the mapper throw.
RECURSIVE WriteCache(_, _, _)
WriteCache(d, i, newSize) ==
  IF i > Len(d.cache) THEN Done(d)
  ELSE LET item == d.cache[i]
       IN  IF item = Undefined \/ item.id \notin DOMAIN d.items
           THEN Failed(d)
           ELSE WriteCache(writeToBlock(d, d.items[item.id].block, item,
                                        newSize),
                           i + 1, newSize)

\* while (db.blockSize * db.cache.length > db.maxCacheSize) pop
RECURSIVE ShrinkCache(_)
ShrinkCache(d) ==
  IF d.blockSize * Len(d.cache) > d.maxCacheSize
  THEN LET item == d.cache[Len(d.cache)]
       IN  IF item = Undefined \/ item.id \notin DOMAIN d.items
           THEN Failed([d EXCEPT !.cache = Pop(@)])
           ELSE ShrinkCache(
                  [d EXCEPT !.cache = Pop(@),
                            !.items[item.id] = ItemData(@.block, FALSE, -1)])
  ELSE Done(d)

\* resize without the test of line 545: the blocks are rewritten whatever
\* the new size is.
resizeAlways(d, newSize) ==
  LET w == WriteCache(ResizeFileIO(d, newSize), 1, newSize)
  IN  IF w.ok THEN ShrinkCache([w.db EXCEPT !.blockSize = newSize])
      ELSE w

resize(d, newSize) ==
  IF newSize # d.blockSize
  THEN LET w == WriteCache(ResizeFileIO(d, newSize), 1, newSize)
       IN  IF w.ok THEN ShrinkCache([w.db EXCEPT !.blockSize = newSize])
           ELSE w
  ELSE Done(d)

(* ---------------------------------------------------------------- insert *)
insert(d, item) ==
  LET isNew == item.id \notin DOMAIN d.items
      oldBlocks == d.blocks
      itemData0 == IF isNew THEN ItemData(oldBlocks, FALSE, -1)
                   ELSE d.items[item.id]
      block == itemData0.block
      d1 == [d EXCEPT !.blocks = IF isNew THEN @ + 1 ELSE @,
                      !.items = Put(@, item.id, itemData0)]
      itemLength == EncLen(item)
      r == IF itemLength > d1.blockSize
           THEN IF d1.blocks > 1
                THEN resize(d1, nextPowerOfTwo(itemLength))
                ELSE Done([d1 EXCEPT !.blockSize = nextPowerOfTwo(itemLength)])
           ELSE Done(d1)
      d2 == r.db
      itemData == d2.items[item.id]
      d3 == IF itemData.cached
            THEN [d2 EXCEPT !.cache = CacheSet(@, itemData.cacheIndex, item)]
            ELSE IF /\ oldBlocks <= Len(d2.cache)
                    /\ d2.blockSize * (Len(d2.cache) + 1) <= d2.maxCacheSize
                 THEN [d2 EXCEPT !.items[item.id] =
                                    ItemData(@.block, TRUE, Len(d2.cache)),
                                 !.cache = Append(@, item)]
                 ELSE d2
  IN  IF r.ok THEN Done(writeToBlock(d3, block, item, d3.blockSize)) ELSE r

\* The order in which Promise.map with concurrency 1 hands the n elements of
\* an array to its mapper. The library does not specify the order; it starts
\* with the first element and takes the waiting elements either in array
\* order or from the end of its queue.
MapOrders(n) ==
  {[i \in 1 .. n |-> i],
   [i \in 1 .. n |-> IF i = 1 THEN 1 ELSE n + 2 - i]}

\* insert of an array: one insert at a time, in the given order; a rejected
\* insert rejects the whole and no further element is started.
RECURSIVE insertArray(_, _, _)
insertArray(d, item, order) ==
  IF order = <<>> THEN Done(d)
  ELSE LET r == insert(d, item[Head(order)])
       IN  IF r.ok THEN insertArray(r.db, item, Tail(order)) ELSE r

(* ------------------------------------------------------- load and close *)
\* The handler load passes to iterateOutOfCore.
LoadHandler(d, item, block) ==
  IF d.blockSize * (Len(d.cache) + 1) <= d.maxCacheSize
  THEN [d EXCEPT !.items = Put(@, item.id, ItemData(block, TRUE, Len(d.cache))),
                 !.cache = Append(@, item)]
  ELSE [d EXCEPT !.items = Put(@, item.id, ItemData(block, FALSE, -1))]

\* iterateOutOfCore(0, handler) of load: the reads of all blocks are issued
\* at once and complete in the order `order`; a block that does not parse
\* rejects the promise, the other reads still run their handler.
RECURSIVE LoadBlocks(_, _, _)
LoadBlocks(d, order, ok) ==
  IF order = <<>> THEN IF ok THEN Done(d) ELSE Failed(d)
  ELSE LET item == readFromBlock(d, Head(order))
       IN  IF item = Corrupt THEN LoadBlocks(d, Tail(order), FALSE)
           ELSE LoadBlocks(LoadHandler(d, item, Head(order)), Tail(order), ok)

\* What readHeader finds in its buffer, allocated with new Buffer(22) and
\* not cleared: the header of the file, or for a file without header bytes
\* whatever the memory held, which may be the image of a header written
\* earlier by the same process.
StaleHeaders ==
  {EncodeHeader([blockSize |-> 4, blocks |-> n]) : n \in {0, 1}}

HeaderReads(h) == IF h = NoHeader THEN {NoHeader} \cup StaleHeaders ELSE {h}

\* load when readHeader finds the image h in its buffer.
loadReading(d, h, order) ==
  IF HeaderValid(h)
  THEN LET r == LoadBlocks([readHeader([d EXCEPT !.hdr = h])
                              EXCEPT !.hdr = d.hdr],
                           order, TRUE)
       IN  IF r.ok THEN r.db ELSE writeHeader(r.db)
  ELSE writeHeader(d)

\* load of a file that has its header bytes.
load(d, order) == loadReading(d, d.hdr, order)

close(d) == writeHeader([d EXCEPT !.items = <<>>, !.cache = <<>>])

(* --------------------------------------------------- queries and handlers *)
\* A query maps field names to literal values.  Two more shapes of query
\* are written as records: [field |-> k, regex |-> p] is the query {k: /p/}
\* and [array |-> <<q1, ..., qn>>] is the array [q1, ..., qn] of queries.

\* '' + itemValue: the field color is a string, the other fields are numbers.
Text(key, itemValue) ==
  IF key = "color" THEN itemValue ELSE Digits[itemValue + 1]

\* The test `itemValue &&`: the number 0 is falsy, a colour is not empty.
Truthy(key, itemValue) == key = "color" \/ itemValue # 0

\* RegExp.prototype.test for a pattern of one character and a text of one
\* character.
Test(regex, text) == regex = text

\* matches, lines 447-450 and 465-467, for a key whose query value is a
\* RegExp: the branch of the RegExp leaves `operation` false, and deepEqual
\* of a RegExp and a string that passed the test, or the number 0, is false.
\* (The patterns of the model for a number are the digit 0 only.)
matchesRegExp(item, query) ==
  LET itemValue == item[query.field]
      operation == FALSE
      deepEqual == FALSE
  IN  IF Truthy(query.field, itemValue)
      THEN IF ~Test(query.regex, Text(query.field, itemValue)) THEN FALSE
           ELSE operation \/ deepEqual
      ELSE operation \/ deepEqual

\* matches, lines 436-467, for an array of queries: the keys are the indices,
\* the item has no field of that name, the element has no key that names an
\* operator, and deepEqual of the element and undefined is false.
matchesArray(item, query) ==
  \A i \in DOMAIN query.array :
     LET operation == FALSE
         deepEqual == FALSE
     IN  operation \/ deepEqual

\* Every field of a query of literals must be deeply equal to the literal.
matches(item, query) ==
  IF "regex" \in DOMAIN query THEN matchesRegExp(item, query)
  ELSE IF "array" \in DOMAIN query THEN matchesArray(item, query)
  ELSE \A key \in DOMAIN query : item[key] = query[key]

\* Number.MAX_VALUE, the default limit of remove.
NoLimit == 1000000

removeItem(h, id) ==
  LET itemData == h.items[id]
  IN  [h EXCEPT !.cacheHoles = IF itemData.cached
                                 THEN @ \cup {itemData.cacheIndex} ELSE @,
                !.blockHoles = @ \cup {itemData.block},
                !.items = Del(@, id)]

\* The handler remove passes to iterate.  It throws a TypeError when it is
\* handed undefined or a record that the index no longer holds.
RemoveHandler(h, item) ==
  IF item = Undefined THEN [h EXCEPT !.threw = TRUE]
  ELSE IF matches(item, h.query)
       THEN IF item.id \notin DOMAIN h.items THEN [h EXCEPT !.threw = TRUE]
            ELSE [removeItem(h, item.id) EXCEPT
                    !.numRemoved = @ + 1,
                    !.ret = ~(h.numRemoved + 1 >= h.limit)]
       ELSE [h EXCEPT !.ret = TRUE]

\* A handler of a caller of iterate or iterateOutOfCore: it records the
\* record and the block it is handed and what it returns.  It returns false
\* at its stopAt-th invocation (never when stopAt = 0); if it is invoked
\* after that, a sticky handler (one that counts, as in the tests) returns
\* false again and any other handler (one that looks for a record) true.
UserHandler(h, item, block) ==
  LET n == Len(h.log) + 1
      r == ~(h.stopAt > 0 /\ (IF h.sticky THEN n >= h.stopAt
                                          ELSE n = h.stopAt))
  IN  [h EXCEPT !.log = Append(@, item),
                !.blockLog = Append(@, block),
                !.rets = Append(@, r),
                !.ret = r]

\* The record with the keys the projections map of the options leaves: a key
\* other than _id stays when the map holds true for it, _id stays unless the
\* map holds false for it.
Project(item, options) ==
  IF "projections" \in DOMAIN options
  THEN LET projections == options.projections
           deleted(key) ==
             /\ key \notin DOMAIN projections \/ ~projections[key]
             /\ key # "id" \/ (key \in DOMAIN projections /\ ~projections[key])
       IN  [key \in {k \in DOMAIN item : ~deleted(k)} |-> item[key]]
  ELSE item

\* The comparators handed to find as options.sort: ascending pad, and
\* descending id.
Compare(sort, a, b) == IF sort = "pad" THEN a.pad - b.pad ELSE b.id - a.id

\* results.sort(sort) by insertion, as for arrays of up to ten elements.
\* Without a comparator the records compare equal as strings and the order
\* stays.
RECURSIVE InsertSorted(_, _, _)
InsertSorted(results, item, sort) ==
  IF results = <<>> THEN <<item>>
  ELSE IF Compare(sort, results[Len(results)], item) > 0
       THEN Append(InsertSorted(Pop(results), item, sort),
                   results[Len(results)])
       ELSE Append(results, item)

RECURSIVE Sort(_, _)
Sort(results, options) ==
  IF "sort" \notin DOMAIN options \/ results = <<>> THEN results
  ELSE InsertSorted(Sort(Pop(results), options), results[Len(results)],
                    options.sort)

\* addToResults: the projected clone of the record is pushed; a query on _id
\* stops the scan at its first match; with a limit and no sort the scan stops
\* when the limit is reached; results beyond the limit are sorted and the
\* last is popped.
addToResults(h, item) ==
  LET results == Append(h.results, Project(item, h.options))
  IN  IF "id" \in DOMAIN h.query
      THEN [h EXCEPT !.results = results, !.ret = FALSE]
      ELSE IF "limit" \in DOMAIN h.options
      THEN IF Len(results) = h.options.limit /\ "sort" \notin DOMAIN h.options
           THEN [h EXCEPT !.results = results, !.ret = FALSE]
           ELSE IF Len(results) > h.options.limit
           THEN [h EXCEPT !.results = Pop(Sort(results, h.options)),
                          !.ret = TRUE]
           ELSE [h EXCEPT !.results = results, !.ret = TRUE]
      ELSE [h EXCEPT !.results = results, !.ret = TRUE]

\* The handler find passes to iterate.
FindHandler(h, item) ==
  IF item = Undefined THEN [h EXCEPT !.threw = TRUE]
  ELSE IF matches(item, h.query) THEN addToResults(h, item)
       ELSE [h EXCEPT !.ret = TRUE]

\* handler(item, block); the cached phase of iterate passes no block (-1).
Handler(h, item, block) ==
  IF h.kind = "remove" THEN RemoveHandler(h, item)
  ELSE IF h.kind = "find" THEN FindHandler(h, item)
  ELSE UserHandler(h, item, block)

(* --------------------------------------------------------------- iterate *)
\* The reads of the blocks in `order` (all issued at once) complete in that
\* order; the handler runs for each parsed block unless cancelled.
RECURSIVE OutOfCore(_, _, _, _, _)
OutOfCore(d, order, h, cancelled, ok) ==
  IF order = <<>>
  THEN [h |-> h, completed |-> IF ~ok THEN "rejected"
                               ELSE IF cancelled THEN "false" ELSE "true"]
  ELSE LET item == readFromBlock(d, Head(order))
           h2 == Handler(h, item, Head(order))
       IN  IF item = Corrupt THEN OutOfCore(d, Tail(order), h, cancelled, FALSE)
           ELSE IF cancelled THEN OutOfCore(d, Tail(order), h, cancelled, ok)
           ELSE IF h2.threw THEN OutOfCore(d, Tail(order), h, cancelled, FALSE)
           ELSE OutOfCore(d, Tail(order), h2, ~h2.ret, ok)

iterateOutOfCore(d, h, order) == OutOfCore(d, order, h, FALSE, TRUE)

\* The blocks iterateOutOfCore(startBlock, ...) reads.
BlocksFrom(d, startBlock) == startBlock .. d.blocks - 1

\* for (id in items): the cached records, in key order.
RECURSIVE IterateCached(_, _, _)
IterateCached(d, ids, h) ==
  IF ids = <<>> THEN [h |-> h, stopped |-> FALSE, threw |-> FALSE]
  ELSE LET id == Head(ids)
           h2 == Handler(h, CacheAt(d.cache, h.items[id].cacheIndex), -1)
       IN  IF id \in DOMAIN h.items /\ h.items[id].cached
           THEN IF h2.threw THEN [h |-> h, stopped |-> FALSE, threw |-> TRUE]
                ELSE IF ~h2.ret
                     THEN [h |-> h2, stopped |-> TRUE, threw |-> FALSE]
                     ELSE IterateCached(d, Tail(ids), h2)
           ELSE IterateCached(d, Tail(ids), h)

iterate(d, h, order) ==
  LET c == IterateCached(d, Keys(DOMAIN d.items), h)
  IN  IF c.threw THEN [h |-> c.h, completed |-> "threw"]
      ELSE IF d.blocks > Len(d.cache) THEN iterateOutOfCore(d, c.h, order)
      ELSE [h |-> c.h, completed |-> IF c.stopped THEN "false" ELSE "true"]

(* ------------------------------------------------------------- fillHoles *)
RECURSIVE SkipHoles(_, _)
SkipHoles(holes, i) == IF i \in holes THEN SkipHoles(holes, i - 1) ELSE i

RECURSIVE LastN(_, _, _)
LastN(holes, i, n) ==
  IF n = 0 \/ i < 0 THEN <<>>
  ELSE LET j == SkipHoles(holes, i) IN <<j>> \o LastN(holes, j - 1, n - 1)

getLastNBlocks(d, n) == LastN(d.blockHoles, d.blocks - 1, n)

getLastNCacheIndices(d, n) == LastN(d.cacheHoles, Len(d.cache) - 1, n)

\* fillHoles, line 713, without the test fromBlock > block.
MovesUnguarded(d) ==
  LET holes == Keys(d.blockHoles)
      fromBlocks == getLastNBlocks(d, Len(holes))
  IN  {i \in 1 .. Len(holes) : i <= Len(fromBlocks) /\ fromBlocks[i] > 0}

\* The positions in Object.keys(db.blockHoles) whose hole is filled by a move.
Moves(d) ==
  LET holes == Keys(d.blockHoles)
      fromBlocks == getLastNBlocks(d, Len(holes))
  IN  {i \in 1 .. Len(holes) :
         i <= Len(fromBlocks) /\ fromBlocks[i] # 0 /\ fromBlocks[i] > holes[i]}

\* moveBlock followed by the placement of the moved record in a cache hole.
\* s.holes is the local list cacheHoles of fillHoles.
MoveBlock(s, fromBlock, toBlock) ==
  LET d == s.db
      buffer == readBufferFromBlock(d, fromBlock, NewBuffer(d.blockSize),
                                    d.blockSize)
      item == Decode(buffer)
      d1 == writeBufferToBlock([d EXCEPT !.items[item.id].block = toBlock],
                               toBlock, buffer, d.blockSize)
  IN  IF item = Corrupt \/ item.id \notin DOMAIN d.items
      THEN [s EXCEPT !.ok = FALSE]
      ELSE IF ~d1.items[item.id].cached /\ s.holes # <<>>
           THEN [s EXCEPT
                   !.db = [d1 EXCEPT
                             !.items[item.id] =
                                ItemData(toBlock, TRUE, Head(s.holes)),
                             !.cache = CacheSet(@, Head(s.holes), item)],
                   !.holes = Tail(@)]
           ELSE [s EXCEPT !.db = d1]

RECURSIVE MoveBlocks(_, _, _, _)
MoveBlocks(s, order, holes, fromBlocks) ==
  IF order = <<>> THEN s
  ELSE MoveBlocks(MoveBlock(s, fromBlocks[Head(order)], holes[Head(order)]),
                  Tail(order), holes, fromBlocks)

\* The loop of lines 735-749 without the assignment of line 744: the record
\* is copied into the hole and its index entry keeps the old cacheIndex.
RECURSIVE FillCacheHolesKeepIndex(_, _, _, _, _)
FillCacheHolesKeepIndex(d, holes, i, indices, newCacheSize) ==
  IF i > Len(holes) \/ indices = <<>> THEN Done(d)
  ELSE IF holes[i] < newCacheSize
       THEN LET item == CacheAt(d.cache, Head(indices))
            IN  IF item = Undefined \/ item.id \notin DOMAIN d.items
                THEN Failed(d)
                ELSE FillCacheHolesKeepIndex(
                       [d EXCEPT !.cache = CacheSet(@, holes[i], item)],
                       holes, i + 1, Tail(indices), newCacheSize)
       ELSE FillCacheHolesKeepIndex(d, holes, i + 1, indices, newCacheSize)

\* Make sure there are no holes in the middle of the cache.
RECURSIVE FillCacheHoles(_, _, _, _, _)
FillCacheHoles(d, holes, i, indices, newCacheSize) ==
  IF i > Len(holes) \/ indices = <<>> THEN Done(d)
  ELSE IF holes[i] < newCacheSize
       THEN LET item == CacheAt(d.cache, Head(indices))
            IN  IF item = Undefined \/ item.id \notin DOMAIN d.items
                THEN Failed(d)
                ELSE FillCacheHoles(
                       [d EXCEPT !.items[item.id].cacheIndex = holes[i],
                                 !.cache = CacheSet(@, holes[i], item)],
                       holes, i + 1, Tail(indices), newCacheSize)
       ELSE FillCacheHoles(d, holes, i + 1, indices, newCacheSize)

\* while (db.cache.length > newCacheSize) db.cache.pop()
RECURSIVE PopTo(_, _)
PopTo(c, n) == IF Len(c) > n /\ Len(c) > 0 THEN PopTo(Pop(c), n) ELSE c

\* fillHoles, line 732, with the operands of the difference exchanged.
NewCacheSizeSwapped(d, holes) == Min(d.blocks, Len(holes) - Len(d.cache))

\* fillHoles, line 732: the length the cache is cut to, for the local list
\* of cache holes the moves have left.
NewCacheSize(d, holes) == Min(d.blocks, Len(d.cache) - Len(holes))

\* fillHoles, line 754, left out: the cache holes stay.
KeepCacheHoles(d) == d

\* fillHoles, line 754: db.cacheHoles = {}
ClearCacheHoles(d) == [d EXCEPT !.cacheHoles = {}]

\* `order` is the order in which the concurrent block moves complete.
fillHoles(d, order) ==
  LET holes == Keys(d.blockHoles)
      fromBlocks == getLastNBlocks(d, Len(holes))
      m == MoveBlocks([db |-> d, holes |-> Keys(d.cacheHoles), ok |-> TRUE],
                      order, holes, fromBlocks)
      d1 == [m.db EXCEPT !.blockHoles = {},
                         !.blocks = d.blocks - Len(holes),
                         !.data = Truncate(@, (d.blocks - Len(holes))
                                                 * m.db.blockSize)]
      newCacheSize == NewCacheSize(d1, m.holes)
      f == IF m.holes # <<>>
           THEN FillCacheHoles(d1, m.holes, 1,
                               getLastNCacheIndices(d1, Len(m.holes)),
                               newCacheSize)
           ELSE Done(d1)
  IN  IF ~m.ok THEN Failed(m.db)
      ELSE IF ~f.ok THEN f
      ELSE IF newCacheSize < 0 THEN Hang([f.db EXCEPT !.cache = <<>>])
      ELSE Done(ClearCacheHoles([f.db EXCEPT !.cache = PopTo(@, newCacheSize)]))

(* ---------------------------------------------------------------- remove *)
RemoveScan(d, query, limit, order) ==
  iterate(d, [kind |-> "remove", query |-> query, limit |-> limit,
              numRemoved |-> 0, items |-> d.items,
              cacheHoles |-> d.cacheHoles, blockHoles |-> d.blockHoles,
              ret |-> TRUE, threw |-> FALSE],
          order)

\* The database once the scan of remove has marked its holes.
Marked(d, scan) ==
  [d EXCEPT !.items = scan.h.items, !.cacheHoles = scan.h.cacheHoles,
            !.blockHoles = scan.h.blockHoles]

(* ------------------------------------------------------------------ find *)
\* The scan of find: iterate with the handler that collects the matches.
FindScan(d, query, options, order) ==
  iterate(d, [kind |-> "find", query |-> query, options |-> options,
              results |-> <<>>, items |-> d.items, ret |-> TRUE,
              threw |-> FALSE],
          order)

\* find(query, options): [results, ok]; ok is false when the promise is
\* rejected.
findWith(d, query, options, order) ==
  IF "id" \in DOMAIN query /\ query.id \in DOMAIN d.items
  THEN LET itemData == d.items[query.id]
           result == IF itemData.cached
                     THEN CacheAt(d.cache, itemData.cacheIndex)
                     ELSE readFromBlock(d, itemData.block)
       IN  [results |-> <<result>>, ok |-> result # Corrupt]
  ELSE LET scan == FindScan(d, query, options, order)
       IN  [results |-> scan.h.results,
            ok |-> scan.completed \in {"true", "false"}]

\* find(query), without options.
find(d, query, order) == findWith(d, query, <<>>, order)

\* find({_id: id}) for an id the index holds (no scan is involved).
Content(d, id) == find(d, [id |-> id], <<>>)

\* The record find({_id: id}) returns for an id of the index, or Corrupt
\* when the promise is rejected.
Record(d, id) ==
  IF Content(d, id).ok THEN Content(d, id).results[1] ELSE Corrupt

\* The live records: what find by id returns for every id of the index.
Records(d) == [id \in DOMAIN d.items |-> Record(d, id)]

(* ---------------------------------------------------------------- update *)
\* update re-inserts the records it found with Promise.map and no
\* concurrency limit: every db.insert(item) is started before any of their
\* I/O completes, and the inserts (with the resizes they start) then run
\* interleaved.  A task is one such insert: pc names the I/O it is waiting
\* for, io holds the arguments that I/O was issued with, buf is the buffer of
\* its resize, moves the blocks its resize has still to move, cvals the
\* cached records its resize has still to write back.

\* The item with the literal fields of the update directive assigned.
Apply(item, update) ==
  [item EXCEPT !.color = update.color, !.pad = update.pad]

NoIO == [kind |-> "none", off |-> 0, len |-> 0, buf |-> <<>>]
ReadIO(off, len) == [kind |-> "read", off |-> off, len |-> len, buf |-> <<>>]
WriteIO(off, buf) == [kind |-> "write", off |-> off, len |-> 0, buf |-> buf]
TruncIO(len) == [kind |-> "trunc", off |-> 0, len |-> len, buf |-> <<>>]

\* The outcome of a continuation: the database, the task, and whether the
\* continuation ran without throwing.
Went(d, t) == [db |-> d, t |-> t, ok |-> TRUE]
Threw(d, t) == [db |-> d, t |-> [t EXCEPT !.pc = "done", !.io = NoIO],
                ok |-> FALSE]

\* insert, lines 650-660: the record enters the cache if it has a place
\* there, and its write is issued.
ContinueInsert(d, t) ==
  LET itemData == d.items[t.item.id]
      d1 == IF itemData.cached
            THEN [d EXCEPT !.cache = CacheSet(@, itemData.cacheIndex, t.item)]
            ELSE IF /\ t.blocks <= Len(d.cache)
                    /\ d.blockSize * (Len(d.cache) + 1) <= d.maxCacheSize
                 THEN [d EXCEPT !.items[t.item.id] =
                                   ItemData(@.block, TRUE, Len(d.cache)),
                                !.cache = Append(@, t.item)]
                 ELSE d
  IN  Went(d1, [t EXCEPT !.pc = "iwrite",
                         !.io = WriteIO(t.block * d1.blockSize,
                                        CopyInto(Stringify(t.item),
                                                 blankEntry(d1.blockSize)))])

\* resize, lines 587-596, followed by the continuation of insert.
FinishResize(d, t) ==
  LET r == ShrinkCache([d EXCEPT !.blockSize = t.newSize])
  IN  IF r.ok THEN ContinueInsert(r.db, t) ELSE Threw(r.db, t)

\* resize, lines 582-585: the next cached record is written back.
IssueCacheWrite(d, t) ==
  IF t.cvals = <<>> THEN FinishResize(d, t)
  ELSE LET item == Head(t.cvals)
       IN  IF item = Undefined \/ item.id \notin DOMAIN d.items
           THEN Threw(d, t)
           ELSE Went(d, [t EXCEPT !.pc = "cwrite",
                                  !.io = WriteIO(d.items[item.id].block
                                                   * t.newSize,
                                                 CopyInto(Stringify(item),
                                                   blankEntry(t.newSize)))])

\* resize, lines 580-582: Promise.map takes the records the cache holds now.
CachePhase(d, t) == IssueCacheWrite(d, [t EXCEPT !.cvals = d.cache])

\* resize, lines 562-576: the read of the next block to move is issued; after
\* the last move the file is truncated if the block size did not grow.
IssueMove(d, t) ==
  IF t.moves # <<>>
  THEN Went(d, [t EXCEPT !.pc = "read",
                         !.io = ReadIO(Head(t.moves) * d.blockSize,
                                       Min(d.blockSize, t.newSize))])
  ELSE IF t.newSize <= d.blockSize
       THEN Went(d, [t EXCEPT !.pc = "trunc",
                              !.io = TruncIO(d.blocks * t.newSize)])
       ELSE CachePhase(d, t)

\* insert, lines 604-649, called by update: the index entry, the resize the
\* record needs (its first I/O is issued), or else the continuation.
StartInsert(d, item) ==
  LET isNew == item.id \notin DOMAIN d.items
      itemData0 == IF isNew THEN ItemData(d.blocks, FALSE, -1)
                   ELSE d.items[item.id]
      d1 == [d EXCEPT !.blocks = IF isNew THEN @ + 1 ELSE @,
                      !.items = Put(@, item.id, itemData0)]
      newSize == nextPowerOfTwo(EncLen(item))
      t == [item |-> item, block |-> itemData0.block, blocks |-> d.blocks,
            pc |-> "start", newSize |-> newSize, buf |-> NewBuffer(newSize),
            moves |-> <<>>, cvals |-> <<>>, io |-> NoIO]
  IN  IF EncLen(item) > d1.blockSize
      THEN IF d1.blocks > 1
           THEN IF d1.blocks > Len(d1.cache)
                THEN IssueMove(d1, [t EXCEPT !.buf = blankEntry(newSize),
                                             !.moves = MoveIndices(d1, newSize)])
                ELSE CachePhase(d1, t)
           ELSE ContinueInsert([d1 EXCEPT !.blockSize = newSize], t)
      ELSE ContinueInsert(d1, t)

\* The I/O a task is waiting for completes, and the continuation runs.
Complete(d, t) ==
  CASE t.pc = "read" ->
         LET buf == ReadAt(d.data, t.io.off, t.io.len, t.buf)
         IN  Went(d, [t EXCEPT !.buf = buf, !.pc = "write",
                               !.io = WriteIO(Head(t.moves) * t.newSize, buf)])
    [] t.pc = "write" ->
         IssueMove([d EXCEPT !.data = WriteAt(@, t.io.off, t.io.buf)],
                   [t EXCEPT !.buf = blankEntry(t.newSize),
                             !.moves = Tail(@)])
    [] t.pc = "trunc" ->
         CachePhase([d EXCEPT !.data = Truncate(@, t.io.len)], t)
    [] t.pc = "cwrite" ->
         IssueCacheWrite([d EXCEPT !.data = WriteAt(@, t.io.off, t.io.buf)],
                         [t EXCEPT !.cvals = Tail(@)])
    [] t.pc = "iwrite" ->
         Went([d EXCEPT !.data = WriteAt(@, t.io.off, t.io.buf)],
              [t EXCEPT !.pc = "done", !.io = NoIO])

\* Promise.map(results, ...): the mapper runs for every result in turn.
RECURSIVE StartAll(_, _, _, _)
StartAll(d, results, update, started) ==
  IF results = <<>> THEN [db |-> d, tasks |-> started, ok |-> TRUE]
  ELSE LET r == StartInsert(d, Apply(Head(results), update))
       IN  IF r.ok
           THEN StartAll(r.db, Tail(results), update, Append(started, r.t))
           ELSE [db |-> r.db, tasks |-> started, ok |-> FALSE]

AllDone(ts) == \A i \in 1 .. Len(ts) : ts[i].pc = "done"

Pending(ts) == {i \in 1 .. Len(ts) : ts[i].pc # "done"}

\* Two writes that touch a common byte.
Overlap(a, b) ==
  a.off < b.off + Len(b.buf) /\ b.off < a.off + Len(a.buf)

\* Every task that is not done waits for its last write, and these writes
\* are pairwise disjoint or identical: the file they leave does not depend
\* on the order in which they complete.
Commuting(ts) ==
  \A i, j \in Pending(ts) :
     /\ ts[i].pc = "iwrite"
     /\ i # j => (~Overlap(ts[i].io, ts[j].io) \/ ts[i].io = ts[j].io)

\* The tasks whose I/O may complete next; one order stands for all orders
\* of writes that commute.
Completable(ts) ==
  IF Commuting(ts)
  THEN {i \in Pending(ts) : \A j \in Pending(ts) : i <= j}
  ELSE Pending(ts)

(* --------------------------------------------------------------- actions *)
Queries == {<<>>} \cup {[color |-> c] : c \in Colors}
Limits == {1, NoLimit}
BlockSizes == {4, 6}
StopAts == {0, 1, 2}
\* Queries of the other shapes: arrays of queries and regular expressions.
QueryArrays == {[array |-> <<[color |-> "r"], [id |-> 0]>>]}
RegExpQueries ==
  {[field |-> "color", regex |-> c] : c \in Colors}
    \cup {[field |-> "pad", regex |-> Digits[1]]}
RemoveQueries ==
  Queries \cup QueryArrays \cup {[field |-> "color", regex |-> "r"]}
\* remove and update, lines 772-775 and 812-814: the default of the option
\* concurrency, and the values a caller passes to update.
DefaultConcurrency == 4
Concurrencies == {1, DefaultConcurrency}
\* iterate and iterateOutOfCore, lines 392-408 and 429-431, called without
\* options by find and remove: Promise.map takes every block from the cache
\* length on and issues the read of each before any completes.
ScanReads(d) == Cardinality(BlocksFrom(d, Len(d.cache)))
\* Update directives: literal values for the fields color and pad.
Updates == {[color |-> c[1], pad |-> c[2]] : c \in Contents}

\* The kinds of handler: with stopAt = 0 the handler never stops.
Stickies(stopAt) == IF stopAt = 0 THEN {TRUE} ELSE BOOLEAN

\* The state of a caller's handler before its first invocation.
UserState(stopAt, sticky) ==
  [kind |-> "user", stopAt |-> stopAt, sticky |-> sticky, log |-> <<>>,
   blockLog |-> <<>>, rets |-> <<>>, items |-> items, ret |-> TRUE,
   threw |-> FALSE]

Idle == [op |-> "none"]

\* The file a database holds once records 0 .. n-1 have been inserted in
\* this order with the contents c[1] .. c[n] and the block size has become bsz.
RECURSIVE FileOf(_, _, _)
FileOf(n, c, bsz) ==
  IF n = 0 THEN <<>>
  ELSE FileOf(n - 1, c, bsz)
         \o CopyInto(Stringify([id |-> n - 1, color |-> c[n][1],
                                pad |-> c[n][2]]),
                     blankEntry(bsz))

InitBlockSizes == {4, 8}

\* Headers of files the engine did not write: a wrong magic, a wrong version.
ForeignHeaders ==
  {[EncodeHeader([blockSize |-> 4, blocks |-> 1]) EXCEPT !.magic = "junk"],
   [EncodeHeader([blockSize |-> 4, blocks |-> 1]) EXCEPT !.version = 2]}

\* A Database object constructed over a file that does not exist yet, over
\* a file that the engine has written and closed, or over a foreign file.
Constructed ==
  /\ fd = FALSE
  /\ items = <<>>
  /\ cache = <<>>
  /\ cacheHoles = {}
  /\ blocks = 0
  /\ blockSize = 0
  /\ blockHoles = {}
  /\ last = Idle
  /\ nops = 0
  /\ tasks = <<>>
  /\ \/ hdr = NoHeader /\ data = <<>> /\ truth = <<>>
     \/ \E n \in 1 .. NumIds, bsz \in InitBlockSizes :
        \E c \in [1 .. n -> Contents] :
          /\ \A i \in 1 .. n : 4 + c[i][2] <= bsz
          /\ hdr = EncodeHeader([blockSize |-> bsz, blocks |-> n])
          /\ data = FileOf(n, c, bsz)
          /\ truth = [i \in 0 .. n - 1 |->
                        [id |-> i, color |-> c[i + 1][1], pad |-> c[i + 1][2]]]
     \/ /\ hdr \in ForeignHeaders
        /\ data = FileOf(1, <<<<"r", 0>>>>, 4)
        /\ truth = <<>>

\* maxCacheSize is a field the caller sets before load; no operation
\* assigns it.
Init == Constructed /\ maxCacheSize = MaxCacheSize

\* The number of blocks a header announces.
BlocksOf(h) == IF HeaderValid(h) THEN JoinWords(h.nU, h.nL) ELSE 0

HeaderBlocks == BlocksOf(hdr)

Load ==
  /\ last = Idle
  /\ nops < MaxOps
  /\ nops' = nops + 1
  /\ UNCHANGED tasks
  /\ fd = FALSE
  /\ \E h \in HeaderReads(hdr) :
     \E order \in Orders(0 .. BlocksOf(h) - 1) :
       Install(loadReading(DB, h, order))
  /\ fd' = TRUE
  /\ last' = [op |-> "load", ok |-> TRUE]
  /\ UNCHANGED truth

Close ==
  /\ last = Idle
  /\ nops < MaxOps
  /\ nops' = nops + 1
  /\ UNCHANGED tasks
  /\ fd = TRUE
  /\ Install(close(DB))
  /\ fd' = FALSE
  /\ last' = [op |-> "close", ok |-> TRUE]
  /\ UNCHANGED truth

Insert ==
  /\ last = Idle
  /\ nops < MaxOps
  /\ nops' = nops + 1
  /\ UNCHANGED tasks
  /\ fd = TRUE
  /\ \E item \in Items :
       LET r == insert(DB, item)
       IN  /\ Install(r.db)
           /\ last' = [op |-> "insert", item |-> item, ok |-> r.ok,
                       isNew |-> item.id \notin DOMAIN items]
           /\ truth' = Put(truth, item.id, item)
  /\ UNCHANGED fd

\* The arrays of n records handed to insert: records with increasing ids.
Arrays(n) ==
  {a \in [1 .. n -> Items] : \A i, j \in 1 .. n : i < j => a[i].id < a[j].id}

\* insert(array). An array of n records counts as n operations of the run.
InsertArray ==
  /\ last = Idle
  /\ UNCHANGED tasks
  /\ fd = TRUE
  /\ \E n \in 2 .. MaxArray :
       /\ nops + n <= MaxOps
       /\ nops' = nops + n
       /\ \E item \in Arrays(n) : \E order \in MapOrders(n) :
            \E r \in {insertArray(DB, item, order)} :
                /\ Install(r.db)
                /\ last' = [op |-> "insertArray", item |-> item, ok |-> r.ok,
                            isNew |-> [i \in 1 .. n |->
                                         item[i].id \notin DOMAIN items],
                            blocks0 |-> blocks]
                /\ truth' = [id \in DOMAIN truth \cup
                                      {item[i].id : i \in 1 .. n} |->
                               IF \E i \in 1 .. n : item[i].id = id
                               THEN item[CHOOSE i \in 1 .. n : item[i].id = id]
                               ELSE truth[id]]
  /\ UNCHANGED fd

\* The encoded lengths of the records of the length view of insert: lengths
\* at and next to powers of two.
Lengths == {2 ^ k + d : k \in {2, 3, 28, 29}, d \in {-1, 0, 1}}

\* insert of one record, seen through its encoded length alone: the index
\* entry it allocates and the block size it leaves. The bytes of the record
\* are left out, so that lengths far beyond MaxCacheSize can be inserted.
InsertOfLength ==
  /\ last = Idle
  /\ nops < MaxOps
  /\ nops' = nops + 1
  /\ fd = TRUE
  /\ \E itemLength \in Lengths, isNew \in BOOLEAN :
       /\ isNew \/ blocks > 0
       /\ blocks' = IF isNew THEN blocks + 1 ELSE blocks
       /\ blockSize' = IF itemLength > blockSize
                       THEN nextPowerOfTwo(itemLength) ELSE blockSize
       /\ last' = [op |-> "insertOfLength", itemLength |-> itemLength,
                   ok |-> TRUE]
  /\ UNCHANGED <<fd, hdr, data, items, cache, cacheHoles, blockHoles,
                 maxCacheSize, truth, tasks>>

Resize ==
  /\ last = Idle
  /\ nops < MaxOps
  /\ nops' = nops + 1
  /\ UNCHANGED tasks
  /\ fd = TRUE
  /\ \E newSize \in BlockSizes :
       LET r == resize(DB, newSize)
       IN  /\ Install(r.db)
           /\ last' = [op |-> "resize", size |-> newSize, ok |-> r.ok,
                       from |-> blockSize]
  /\ UNCHANGED <<fd, truth>>

Remove ==
  /\ last = Idle
  /\ nops < MaxOps
  /\ nops' = nops + 1
  /\ UNCHANGED tasks
  /\ fd = TRUE
  /\ \E query \in RemoveQueries, limit \in Limits :
     \E order \in Orders(BlocksFrom(DB, Len(cache))) :
     \E scan \in {RemoveScan(DB, query, limit, order)} :
     \E marked \in {Marked(DB, scan)} :
           IF scan.completed \in {"true", "false"} /\ scan.h.numRemoved > 0
           THEN \E moves \in Orders(Moves(marked)) :
                \E f \in {fillHoles(marked, moves)} :
                      /\ Install(f.db)
                      /\ last' = [op |-> "remove", query |-> query,
                                  limit |-> limit, ok |-> f.ok,
                                  hang |-> f.hang,
                                  concurrency |-> DefaultConcurrency,
                                  ret |-> scan.h.numRemoved]
           ELSE /\ Install(marked)
                /\ last' = [op |-> "remove", query |-> query,
                            limit |-> limit,
                            ok |-> scan.completed \in {"true", "false"},
                            hang |-> FALSE,
                            concurrency |-> DefaultConcurrency,
                            ret |-> scan.h.numRemoved]
  /\ truth' = [id \in DOMAIN truth \ (DOMAIN items \ DOMAIN items') |->
                 truth[id]]
  /\ UNCHANGED fd

Iterate ==
  /\ last = Idle
  /\ nops < MaxOps
  /\ nops' = nops + 1
  /\ UNCHANGED tasks
  /\ fd = TRUE
  /\ \E stopAt \in StopAts :
     \E sticky \in Stickies(stopAt) :
     \E order \in Orders(BlocksFrom(DB, Len(cache))) :
       LET scan == iterate(DB, UserState(stopAt, sticky), order)
       IN  last' = [op |-> "iterate", stopAt |-> stopAt, sticky |-> sticky,
                    log |-> scan.h.log, rets |-> scan.h.rets,
                    completed |-> scan.completed,
                    ok |-> scan.completed \in {"true", "false"}]
  /\ UNCHANGED <<fd, dbvars, truth>>

\* iterateOutOfCore(startBlock, handler) called by the user, as the tests do.
IterateOutOfCore ==
  /\ last = Idle
  /\ nops < MaxOps
  /\ nops' = nops + 1
  /\ UNCHANGED tasks
  /\ fd = TRUE
  /\ \E startBlock \in 0 .. blocks, stopAt \in StopAts :
     \E sticky \in Stickies(stopAt) :
     \E order \in Orders(BlocksFrom(DB, startBlock)) :
       LET scan == iterateOutOfCore(DB, UserState(stopAt, sticky), order)
       IN  last' = [op |-> "iterateOutOfCore", startBlock |-> startBlock,
                    stopAt |-> stopAt, sticky |-> sticky,
                    log |-> scan.h.log, blockLog |-> scan.h.blockLog,
                    rets |-> scan.h.rets, completed |-> scan.completed,
                    ok |-> scan.completed \in {"true", "false"}]
  /\ UNCHANGED <<fd, dbvars, truth>>

\* update(query, update): the scan of find, then every re-insert is started.
\* `before` and `blocks0` keep the records and blocks of the database at the
\* call, for the properties of the result.
Update ==
  /\ last = Idle
  /\ nops < MaxOps
  /\ nops' = nops + 1
  /\ fd = TRUE
  /\ \E query \in Queries, update \in Updates, concurrency \in Concurrencies :
     \E order \in Orders(BlocksFrom(DB, Len(cache))) :
     \E f \in {find(DB, query, order)} :
     \E s \in {StartAll(DB, f.results, update, <<>>)} :
     \E running \in {f.ok /\ s.ok /\ ~AllDone(s.tasks)} :
           /\ Len(f.results) <= MaxUpdated
           /\ Install(IF f.ok THEN s.db ELSE DB)
           /\ tasks' = IF running THEN s.tasks ELSE <<>>
           /\ last' = [op |-> "update", query |-> query, update |-> update,
                       concurrency |-> concurrency,
                       ret |-> Len(f.results), running |-> running,
                       ok |-> f.ok /\ s.ok /\ AllDone(s.tasks),
                       before |-> Records(DB), blocks0 |-> blocks,
                       blockSize0 |-> blockSize]
           /\ truth' = [id \in DOMAIN truth |->
                          IF matches(truth[id], query)
                          THEN Apply(truth[id], update) ELSE truth[id]]
  /\ UNCHANGED fd

\* One I/O of one re-insert of the running update completes.  The update
\* resolves when every re-insert is done, and rejects when one throws.
UpdateStep ==
  /\ last # Idle
  /\ last.op = "update"
  /\ last.running
  /\ \E i \in Completable(tasks) :
       /\ tasks[i].pc # "done"
       /\ LET r == Complete(DB, tasks[i])
              ts == [tasks EXCEPT ![i] = r.t]
              running == r.ok /\ ~AllDone(ts)
          IN  /\ Install(r.db)
              /\ tasks' = IF running THEN ts ELSE <<>>
              /\ last' = [last EXCEPT !.running = running,
                                      !.ok = r.ok /\ AllDone(ts)]
  /\ UNCHANGED <<fd, nops, truth>>

\* The caller takes the result of an operation that completed and goes on.
\* A rejected operation ends the run: the model does not follow the engine
\* past a failure.
Return ==
  /\ last # Idle
  /\ last.ok
  /\ last' = Idle
  /\ UNCHANGED <<fd, nops, dbvars, truth, tasks>>

Next ==
  \/ Load \/ Close \/ Insert \/ InsertArray \/ Resize \/ Remove \/ Iterate
  \/ IterateOutOfCore \/ Update \/ UpdateStep \/ Return

Spec == Init /\ [][Next]_vars

\* The length view: a database loaded from a file that does not exist takes
\* inserts of records of the lengths above.
LengthInit == Init /\ hdr = NoHeader

LengthNext == Load \/ InsertOfLength \/ Return

LengthSpec == LengthInit /\ [][LengthNext]_vars

\* The small cache: the same operations on a Database object whose
\* maxCacheSize is half the size, so that one block of the larger block size
\* does not fit the cache.
SmallCacheInit == Constructed /\ maxCacheSize = MaxCacheSize \div 2

SmallCacheSpec == SmallCacheInit /\ [][Next]_vars

(* ------------------------------------------------------ update operators *)
\* The longest array field of the operator view.
MaxTags == 3
\* The elements of an array field.
TagValues == {1, 2}

arrayContains(array, element) == \E i \in DOMAIN array : array[i] = element

\* $push, lines 163-167: the loop over the elements of $each.
RECURSIVE PushEach(_, _, _)
PushEach(array, arrayValue, forceUnique) ==
  IF arrayValue = <<>> THEN array
  ELSE PushEach(IF forceUnique /\ ~arrayContains(array, Head(arrayValue))
                THEN Append(array, Head(arrayValue)) ELSE array,
                Tail(arrayValue), forceUnique)

\* items.sort() for elements of one digit: ascending.
RECURSIVE SortItems(_)
SortItems(array) ==
  IF array = <<>> THEN <<>>
  ELSE LET m == CHOOSE i \in DOMAIN array :
                  \A j \in DOMAIN array :
                     array[i] < array[j] \/ (array[i] = array[j] /\ i <= j)
       IN  <<array[m]>> \o
             SortItems([k \in 1 .. Len(array) - 1 |->
                          IF k < m THEN array[k] ELSE array[k + 1]])

\* items.splice(0, n): the first n elements are removed.
Splice(array, n) == SubSeq(array, n + 1, Len(array))

\* $push, lines 159-175, for one key.  The value of the directive is written
\* [plain |-> v] for a plain value v, and [each |-> a, sort |-> b] or
\* [each |-> a, sort |-> b, slice |-> n] for {$each: a, $sort: b, $slice: n}.
pushValue(array, value, forceUnique) ==
  IF "each" \in DOMAIN value
  THEN LET pushed == PushEach(array, value.each, forceUnique)
           sorted == IF value.sort THEN SortItems(pushed) ELSE pushed
       IN  IF "slice" \in DOMAIN value THEN Splice(sorted, value.slice)
           ELSE sorted
  ELSE Append(array, value.plain)

\* updateOperators.$push, lines 156-179.
push(item, update, forceUnique) ==
  [key \in DOMAIN item |->
     IF key \in DOMAIN update
     THEN pushValue(item[key], update[key], forceUnique) ELSE item[key]]

\* updateOperators.$addToSet, lines 192-194.
addToSet(item, update) == push(item, update, TRUE)

\* The array fields and the values of the directives of the operator view.
TagArrays(n) == UNION {[1 .. k -> TagValues] : k \in 0 .. n}
PushValues ==
  {[plain |-> v] : v \in TagValues}
    \cup {[each |-> a, sort |-> b] : a \in TagArrays(2) \ {<<>>}, b \in BOOLEAN}
    \cup {[each |-> a, sort |-> b, slice |-> 1] :
             a \in TagArrays(2) \ {<<>>}, b \in BOOLEAN}

\* The operator view: one item with an array field, in memory, and the
\* update operators applied to it; `last` holds the item and the directive.
PushInit ==
  /\ fd = FALSE
  /\ hdr = NoHeader
  /\ data = <<>>
  /\ items = <<>>
  /\ cache = <<>>
  /\ cacheHoles = {}
  /\ blocks = 0
  /\ blockSize = 0
  /\ blockHoles = {}
  /\ maxCacheSize = MaxCacheSize
  /\ nops = 0
  /\ tasks = <<>>
  /\ truth = <<>>
  /\ \E a \in TagArrays(1) :
       last = [op |-> "item", item |-> [id |-> 0, tags |-> a]]

Push ==
  /\ nops < MaxOps
  /\ nops' = nops + 1
  /\ \E value \in PushValues :
     \E item \in {push(last.item, [tags |-> value], FALSE)} :
       /\ Len(item.tags) <= MaxTags
       /\ last' = [op |-> "$push", before |-> last.item, value |-> value,
                   item |-> item]
  /\ UNCHANGED <<fd, dbvars, truth, tasks>>

AddToSet ==
  /\ nops < MaxOps
  /\ nops' = nops + 1
  /\ \E value \in PushValues :
     \E item \in {addToSet(last.item, [tags |-> value])} :
       /\ Len(item.tags) <= MaxTags
       /\ last' = [op |-> "$addToSet", before |-> last.item, value |-> value,
                   item |-> item]
  /\ UNCHANGED <<fd, dbvars, truth, tasks>>

PushNext == Push \/ AddToSet

PushSpec == PushInit /\ [][PushNext]_vars

\* The engine with every file I/O completing: an I/O a running update waits
\* for is not postponed forever.
FairSpec == Spec /\ WF_vars(UpdateStep)

(* ---------------------------------------------------------------- claims *)
\* The orders in which the reads of a scan of database d can complete.
ScanOrders(d) == Orders(BlocksFrom(d, Len(d.cache)))

\* The results of find({_id: id}), one for every completion order.
FindAll(d, id) == {find(d, [id |-> id], order) : order \in ScanOrders(d)}

\* An operation of the given kinds has just completed successfully.
After(ops) == last # Idle /\ last.op \in ops /\ last.ok

\* The number of times the handler of the last iterate was handed record id.
Deliveries(id) ==
  Cardinality({i \in 1 .. Len(last.log) :
                 last.log[i] # Undefined /\ last.log[i].id = id})

\* C1: iterate with a handler that never stops invokes the handler exactly
\* once for each live record (each id in the index) and for no other record.
C1_IterateExactlyOnce ==
  (last # Idle /\ last.op = "iterate" /\ last.stopAt = 0) =>
     /\ Len(last.log) = Cardinality(DOMAIN items)
     /\ \A id \in DOMAIN items : Deliveries(id) = 1

\* The ids of the live records that match a query.
Matching(d, query) ==
  {id \in DOMAIN d.items :
     Record(d, id) \in Items /\ matches(Record(d, id), query)}

FileSize == IF hdr = NoHeader THEN Len(data) ELSE HEADER_LENGTH + Len(data)

\* C2: find({_id: id}) returns the one-element list holding the latest
\* inserted content of the record if it is live, and the empty list if it was
\* never inserted or has been removed.
C2_FindById ==
  (fd /\ After({"insert", "remove", "resize"})) =>
     \A id \in Ids :
        FindAll(DB, id) =
          {[results |-> IF id \in DOMAIN truth THEN <<truth[id]>> ELSE <<>>,
            ok |-> TRUE]}

\* C3: a load that follows close yields the same records (same ids, same
\* contents) and the same blocks and blockSize as before the close.
C3_RoundTrip ==
  [][last'.op = "close" =>
       \A order \in Orders(0 .. blocks - 1) :
          LET l == load(DB', order)
          IN  /\ l.blocks = blocks
              /\ l.blockSize = blockSize
              /\ Records(l) = Records(DB)]_vars

\* C4: when insert receives a record whose encoded length exceeds blockSize,
\* every record that was live before the insert is still retrievable
\* afterwards with unchanged content.
C4_InsertResizeKeepsRecords ==
  [][(last'.op = "insert" /\ EncLen(last'.item) > blockSize) =>
       /\ last'.ok
       /\ \A id \in DOMAIN items \ {last'.item.id} :
            Record(DB, id) \in Items =>
               id \in DOMAIN items' /\ Record(DB', id) = Record(DB, id)]_vars

\* C5: a public resize to a block size that is at least the encoded length
\* of every live record changes blockSize to the new size and leaves the set
\* of records and the content and block index of each record unchanged, in
\* the running engine and after close and reload.
C5_ResizeKeepsRecords ==
  [][(/\ last'.op = "resize"
      /\ \A id \in DOMAIN items :
            Record(DB, id) \in Items /\ EncLen(Record(DB, id)) <= last'.size) =>
       /\ last'.ok
       /\ blockSize' = last'.size
       /\ Records(DB') = Records(DB)
       /\ \A id \in DOMAIN items : items'[id].block = items[id].block
       /\ \A order \in Orders(0 .. blocks - 1) :
            LET l == load(close(DB'), order)
            IN  /\ l.blockSize = last'.size
                /\ Records(l) = Records(DB)
                /\ \A id \in DOMAIN items : l.items[id].block = items[id].block
     ]_vars

\* C6: after each insert, remove and resize the file size equals
\* headerLength + blocks * blockSize.
C6_FileSize ==
  (fd /\ After({"insert", "remove", "resize"})) =>
     FileSize = HEADER_LENGTH + blocks * blockSize

\* C7: after remove(query) without a limit no live record matches the query,
\* the returned count is the number of records that matched before the call,
\* and blocks has decreased by exactly that count.
C7_RemoveAllMatching ==
  [][(last'.op = "remove" /\ last'.ok /\ last'.limit = NoLimit) =>
       /\ Matching(DB', last'.query) = {}
       /\ last'.ret = Cardinality(Matching(DB, last'.query))
       /\ blocks' = blocks - last'.ret]_vars

\* C8: remove leaves every record that does not match the query live and
\* retrievable with unchanged content.
C8_RemoveKeepsOthers ==
  [][(last'.op = "remove" /\ last'.ok) =>
       \A id \in DOMAIN items :
          (Record(DB, id) \in Items /\ ~matches(Record(DB, id), last'.query))
             => id \in DOMAIN items' /\ Record(DB', id) = Record(DB, id)]_vars

\* C9: remove(query, {limit: L}) without sort removes at most L records: the
\* returned count is at most L and blocks decreases by at most L.
C9_RemoveLimit ==
  [][(last'.op = "remove" /\ last'.ok /\ last'.limit # NoLimit) =>
       /\ last'.ret <= last'.limit
       /\ blocks' >= blocks - last'.limit]_vars

\* C10: once the handler passed to iterate has returned stop, it is never
\* invoked again during that iterate call (the handler of the model returns
\* stop at its stopAt-th invocation, so it is invoked at most stopAt times).
C10_NoCallAfterStop ==
  (last # Idle /\ last.op = "iterate" /\ last.stopAt > 0) =>
     Len(last.log) <= last.stopAt

\* Some invocation of the handler of the last iteration returned stop.
Stopped == \E i \in 1 .. Len(last.rets) : ~last.rets[i]

\* C11: iterate resolves with completed = false if and only if some
\* invocation of the handler returned stop, and with completed = true
\* otherwise.
C11_CompletedIffNoStop ==
  (last # Idle /\ last.op = "iterate" /\ last.ok) =>
     (last.completed = "false" <=> Stopped)

\* C12: iterateOutOfCore(startBlock, handler) invokes the handler in
\* strictly increasing block-index order, for the blocks startBlock ..
\* blocks-1 when the handler never stops, whatever order the block reads
\* complete in.
C12_BlockOrder ==
  (last # Idle /\ last.op = "iterateOutOfCore" /\ last.ok) =>
     /\ \A i, j \in 1 .. Len(last.blockLog) :
           i < j => last.blockLog[i] < last.blockLog[j]
     /\ ~Stopped => last.blockLog = Keys(BlocksFrom(DB, last.startBlock))

\* The block size the header of the file states, and the record that block
\* b of the file decodes to under it.
HeaderBlockSize ==
  IF HeaderValid(hdr) THEN JoinWords(hdr.bsU, hdr.bsL) ELSE 0

FileRecord(b) ==
  readFromBlock([DB EXCEPT !.blockSize = HeaderBlockSize], b)

\* A valid file: a valid header with a positive block size, every block
\* decoding to a record, no two blocks to the same id.
ValidFile ==
  /\ HeaderValid(hdr)
  /\ HeaderBlockSize > 0
  /\ \A b \in 0 .. HeaderBlocks - 1 : FileRecord(b) \in Items
  /\ \A b, c \in 0 .. HeaderBlocks - 1 :
        FileRecord(b).id = FileRecord(c).id => b = c

\* C13: after load of a valid file with N blocks and block size B the index
\* holds every record with the block it has in the file, cache.length is
\* min(N, floor(maxCacheSize / B)), and the cached records are exactly those
\* of blocks 0 .. cache.length-1, whatever order the block reads complete in.
C13_LoadCachesFirstBlocks ==
  [][(last'.op = "load" /\ ValidFile) =>
       /\ DOMAIN items' = {FileRecord(b).id : b \in 0 .. HeaderBlocks - 1}
       /\ \A b \in 0 .. HeaderBlocks - 1 : items'[FileRecord(b).id].block = b
       /\ Len(cache') = Min(HeaderBlocks, maxCacheSize \div HeaderBlockSize)
       /\ \A id \in DOMAIN items' :
             items'[id].cached <=> items'[id].block < Len(cache')]_vars

\* The ids of the records that matched the query of the last update when it
\* was called.
Hit ==
  {id \in DOMAIN last.before :
     last.before[id] \in Items /\ matches(last.before[id], last.query)}

\* C14: update returns the number of records that matched the query;
\* afterwards each of them, looked up by its id, is the directive applied to
\* its previous content, blocks and the set of ids are unchanged, and every
\* record that did not match is unchanged.
C14_Update ==
  (last # Idle /\ last.op = "update" /\ last.ok) =>
     /\ last.ret = Cardinality(Hit)
     /\ blocks = last.blocks0
     /\ DOMAIN items = DOMAIN last.before
     /\ \A id \in DOMAIN last.before :
           Record(DB, id) = IF id \in Hit
                            THEN Apply(last.before[id], last.update)
                            ELSE last.before[id]

\* C15: insert of a record whose id the index already holds overwrites it in
\* place: blocks, the number of ids and the block of the record are
\* unchanged, and find by that id returns the new content.
C15_InsertOverwrites ==
  [][(last'.op = "insert" /\ last'.item.id \in DOMAIN items) =>
       /\ last'.ok
       /\ blocks' = blocks
       /\ Cardinality(DOMAIN items') = Cardinality(DOMAIN items)
       /\ items'[last'.item.id].block = items[last'.item.id].block
       /\ FindAll(DB', last'.item.id) =
            {[results |-> <<last'.item>>, ok |-> TRUE]}]_vars

\* An insert has overwritten a record that was only on disk in a partially
\* cached database.
C15_Witness ==
  /\ After({"insert"})
  /\ ~last.isNew
  /\ blocks > Len(cache)
  /\ ~items[last.item.id].cached
  /\ Record(DB, last.item.id) = last.item

\* The number of elements before the i-th of the array just inserted whose
\* ids were not in the index.
NewBefore(i) == Cardinality({j \in 1 .. i - 1 : last'.isNew[j]})

\* insert of a single record with a new id takes the block numbered by the
\* previous blocks, adds one to blocks and makes the record retrievable.
C16_Single ==
  (last'.op = "insert" /\ last'.isNew) =>
     /\ last'.ok
     /\ items'[last'.item.id].block = blocks
     /\ blocks' = blocks + 1
     /\ FindAll(DB', last'.item.id) =
          {[results |-> <<last'.item>>, ok |-> TRUE]}

\* insert of an array does the same for each element with a new id, taken in
\* the order of the array.
C16_Array ==
  last'.op = "insertArray" =>
     /\ last'.ok
     /\ blocks' = blocks + NewBefore(Len(last'.item) + 1)
     /\ \A i \in 1 .. Len(last'.item) :
          last'.isNew[i] =>
            /\ items'[last'.item[i].id].block = blocks + NewBefore(i)
            /\ FindAll(DB', last'.item[i].id) =
                 {[results |-> <<last'.item[i]>>, ok |-> TRUE]}

\* C16: insert of a record whose id is not in the index allocates the block
\* index equal to the previous value of blocks, increases blocks by exactly
\* one and makes the record retrievable by find; for an array argument this
\* holds for each element in sequence order.
C16_InsertAllocates == [][C16_Single /\ C16_Array]_vars
\* C17: after insert of a record whose encoded length L exceeds the current
\* blockSize, blockSize is the smallest power of two that is >= L; when
\* L <= blockSize, blockSize is unchanged.
C17_BlockSize ==
  [][/\ (last'.op = "insert" /\ last'.ok) =>
          blockSize' = IF EncLen(last'.item) > blockSize
                       THEN NextPow(1, EncLen(last'.item)) ELSE blockSize
     /\ last'.op = "insertOfLength" =>
          blockSize' = IF last'.itemLength > blockSize
                       THEN NextPow(1, last'.itemLength) ELSE blockSize]_vars
\* The database is loaded and no operation is running: find may be called.
Ready == fd /\ last = Idle

\* The queries and the limits handed to find.
FindQueries == Queries \cup {[id |-> i] : i \in Ids}
FindLimits == {0, 1, 2}

\* C18: find(query, {limit: L}) without sort returns exactly
\* min(L, number of live records matching the query) records, on fully cached
\* and on partially cached databases.
C18_FindLimit ==
  Ready =>
    \A query \in FindQueries, L \in FindLimits, order \in ScanOrders(DB) :
       LET f == findWith(DB, query, [limit |-> L], order)
       IN  /\ f.ok
           /\ Len(f.results) = Min(L, Cardinality(Matching(DB, query)))
\* The comparators handed to find.
Sorts == {"pad", "idDesc"}

\* The results are distinct live records matching the query, as many as the
\* limit allows, and no matching record left out is smaller than one of them.
Smallest(d, query, L, sort, results) ==
  LET matching == Matching(d, query)
      ids == {results[i].id : i \in 1 .. Len(results)}
  IN  /\ Len(results) = Min(L, Cardinality(matching))
      /\ Cardinality(ids) = Len(results)
      /\ \A i \in 1 .. Len(results) :
           /\ results[i].id \in matching
           /\ results[i] = Record(d, results[i].id)
           /\ \A id \in matching \ ids :
                Compare(sort, results[i], Record(d, id)) <= 0

\* C19: find(query, {limit: L, sort: cmp}) returns at most L records, and
\* they are the L smallest matching records under the comparator cmp (all
\* matching records when fewer than L match); the scan is not cut short before
\* every live record has been examined.
C19_FindSorted ==
  Ready =>
    \A query \in FindQueries, L \in FindLimits, sort \in Sorts,
       order \in ScanOrders(DB) :
       LET options == [limit |-> L, sort |-> sort]
           f == findWith(DB, query, options, order)
       IN  /\ f.ok
           /\ \A i \in 1 .. Len(f.results) : f.results[i] \in Items
           /\ Smallest(DB, query, L, sort, f.results)
           /\ "id" \notin DOMAIN query =>
                FindScan(DB, query, options, order).completed = "true"
\* The projections maps handed to find.
Projections ==
  {<<>>, [color |-> TRUE], [id |-> FALSE, color |-> TRUE],
   [color |-> FALSE, pad |-> TRUE]}

\* C20: in every record returned by find called with a projections map P
\* (a find whose query names an existing _id included), a field other than
\* _id is present only if P includes it as true, and _id is present unless P
\* maps _id to false.
C20_Projections ==
  Ready =>
    \A query \in FindQueries, P \in Projections, order \in ScanOrders(DB) :
       LET f == findWith(DB, query, [projections |-> P], order)
       IN  \A i \in 1 .. Len(f.results) :
             LET item == f.results[i]
             IN  (item # Undefined /\ item # Corrupt) =>
                   /\ \A key \in DOMAIN item \ {"id"} :
                        key \in DOMAIN P /\ P[key]
                   /\ "id" \in DOMAIN item <=>
                        ~("id" \in DOMAIN P /\ ~P["id"])
\* C21: load of a non-empty file whose first four bytes are not the magic
\* jinn, or whose version byte is not 1, fails: the promise of load rejects.
C21_LoadRejectsForeign ==
  [][(last'.op = "load" /\ hdr # NoHeader /\ ~HeaderValid(hdr)) =>
       ~last'.ok]_vars
\* C22: load of a file that does not exist or is empty completes
\* successfully, writes a 22-byte header with the current defaults, and leaves
\* the engine empty: blocks is 0, the index is empty and the cache is empty.
C22_LoadOfEmptyFile ==
  [][(last'.op = "load" /\ hdr = NoHeader) =>
       /\ last'.ok
       /\ hdr' = EncodeHeader([blockSize |-> 0, blocks |-> 0])
       /\ blocks' = 0
       /\ items' = <<>>
       /\ cache' = <<>>]_vars
\* C23: during one update or remove call, the number of internal I/O tasks
\* in flight at any moment (block reads of the scan, re-inserts of updated
\* records) never exceeds the concurrency option of the call.
C23_InFlight ==
  [][(last = Idle /\ last'.op \in {"update", "remove"}) =>
       /\ ScanReads(DB) <= last'.concurrency
       /\ Cardinality(Pending(tasks')) <= last'.concurrency]_vars

\* The ids of the live records that match at least one query of an array.
MatchingAny(d, query) ==
  UNION {Matching(d, query.array[i]) : i \in DOMAIN query.array}

\* C24: remove called with an array of queries removes every live record
\* that matches at least one query of the array and no other record.
C24_RemoveArray ==
  [][(last = Idle /\ last'.op = "remove" /\ last'.ok
        /\ last'.query \in QueryArrays /\ last'.limit = NoLimit) =>
       DOMAIN items' = DOMAIN items \ MatchingAny(DB, last'.query)]_vars

\* C25: matches(record, {field: R}) with a regular expression R given
\* directly as the query value is true exactly when the field of the record,
\* coerced to string, matches R.
C25_MatchesRegExp ==
  Ready =>
    \A query \in RegExpQueries : \A id \in DOMAIN items :
       Record(DB, id) \in Items =>
         (matches(Record(DB, id), query) <=>
            Test(query.regex,
                 Text(query.field, Record(DB, id)[query.field])))
\* C26: the update directive $push with {$each: [v1..vn]} appends every
\* element v1..vn, in order, to the array field; with a plain value it
\* appends that value.
C26_Push ==
  (last.op = "$push" /\ "slice" \notin DOMAIN last.value) =>
     IF "each" \in DOMAIN last.value
     THEN ~last.value.sort =>
            last.item.tags = last.before.tags \o last.value.each
     ELSE last.item.tags = Append(last.before.tags, last.value.plain)

\* An unsigned 64-bit integer below 2^32 as eight bytes, little-endian.
U64LE(x) == UInt32LE(x) \o <<0, 0, 0, 0>>

\* C27: writeHeader stores blockSize in bytes 6..13 and blocks in bytes
\* 14..21 of the file as little-endian unsigned 64-bit integers, least
\* significant byte first, and readHeader decodes them with the same layout.
C27_HeaderLayout ==
  [][/\ (last'.op = "close" /\ last'.ok) =>
          /\ BlockSizeBytes(hdr') = U64LE(blockSize')
          /\ NumBlocksBytes(hdr') = U64LE(blocks')
     /\ (last'.op = "load" /\ last'.ok /\ HeaderValid(hdr)) =>
          U64LE(blockSize') = BlockSizeBytes(hdr)]_vars
\* An operation whose promise never settles: the loop that cuts the cache
\* in fillHoles never ends.
Hung == last.op = "remove" /\ last.hang
\* An update that has I/O in flight.
Running == last.op = "update" /\ last.running

C29_ResizeSame ==
  [][(last = Idle /\ last'.op = "resize" /\ last'.size = blockSize) =>
       (last'.ok /\ UNCHANGED dbvars)]_vars

C29_Witness ==
  /\ After({"resize"})
  /\ last.from = last.size
  /\ blocks > Len(cache)
  /\ Len(cache) > 0
\* C30: after every public operation (load, insert, update, remove, resize)
\* completes, the set of cached records is exactly the set of records stored
\* in blocks 0 .. cache.length-1; in particular after a remove whose
\* compaction ran several block moves, a record is in the cache only if its
\* block is below the cache length.
C30_CachedPrefix ==
  After({"load", "insert", "insertArray", "update", "remove", "resize"}) =>
     \A id \in DOMAIN items : items[id].cached <=> items[id].block < Len(cache)

\* The operations that change the records of a database.
Mutations == {"insert", "insertArray", "remove", "update", "resize"}

Completed == Mutations \cup {"load"}

\* C32: after every public operation completes, the index maps the live ids
\* one-to-one onto the block indices 0 .. blocks-1: every index entry has
\* block < blocks, no two ids share a block, and the number of ids equals
\* blocks.
C32_IndexOntoBlocks ==
  After(Completed) =>
     /\ \A id \in DOMAIN items :
           items[id].block >= 0 /\ items[id].block < blocks
     /\ \A a, b \in DOMAIN items :
           a # b => items[a].block # items[b].block
     /\ Cardinality(DOMAIN items) = blocks
\* C33: after every operation of any sequence of insert/update/remove/resize
\* (resize being callable with an arbitrary new block size), every live
\* record's encoded length is <= blockSize, and every occupied block decodes
\* to exactly its record.
C33_RecordsFit ==
  After(Mutations) =>
     \A id \in DOMAIN items \cap DOMAIN truth :
        /\ EncLen(truth[id]) <= blockSize
        /\ readFromBlock(DB, items[id].block) = truth[id]
\* C34: with maxCacheSize constant, after every load, insert, update, remove
\* and resize the cache takes no more than maxCacheSize bytes:
\* blockSize * cache.length <= maxCacheSize, also after an insert that raises
\* blockSize while the database has at most one block.
C34_CacheBound ==
  After(Completed) => blockSize * Len(cache) <= maxCacheSize
Updated(id) ==
  IF id \in Hit THEN Apply(last.before[id], last.update) ELSE last.before[id]

Outgrown == {id \in Hit : EncLen(Updated(id)) > last.blockSize0}

\* C36: when one update makes two or more matched records exceed blockSize,
\* their re-inserts and resizes overlap inside the call; after the update
\* completes blockSize is at least the encoded length of every live record,
\* and every block 0..blocks-1 decodes to the current content of the record
\* the index places there.
C36_OverlappingResizes ==
  (last # Idle /\ last.op = "update" /\ last.ok
     /\ Cardinality(Outgrown) >= 2) =>
     /\ \A id \in DOMAIN items : EncLen(Updated(id)) <= blockSize
     /\ \A b \in 0 .. blocks - 1 :
           \E id \in DOMAIN items :
              items[id].block = b /\ readFromBlock(DB, b) = Updated(id)
\* C37: after every public operation that completes, the cache mirrors the
\* file: for every cached record, cache[cacheIndex] has the content of the
\* record decoded from its block index[id].block.
C37_CacheMirrorsFile ==
  (last # Idle /\ last.ok) =>
     \A id \in DOMAIN items :
        items[id].cached =>
           CacheAt(cache, items[id].cacheIndex)
              = readFromBlock(DB, items[id].block)
\* The queries that name an _id together with a further field condition.
CombinedQueries == {[id |-> i, color |-> c] : i \in Ids, c \in Colors}

\* C38: every record find(query) returns satisfies the whole query as matches
\* evaluates it, also when the query combines an _id the index holds with
\* further field conditions.
C38_FindMatches ==
  Ready =>
    \A query \in FindQueries \cup CombinedQueries, order \in ScanOrders(DB) :
       LET f == find(DB, query, order)
       IN  f.ok => \A i \in 1 .. Len(f.results) :
                     /\ f.results[i] \in Items
                     /\ matches(f.results[i], query)
(* ------------------------------------------------- the moves of fillHoles *)
\* The largest number of blocks of the hole view.
MaxBlocks == 6

\* The hole view of fillHoles: the state removeItem leaves when remove has
\* taken the records of the blocks H of a database of n uncached records,
\* record i in block i.  The bytes of the records are left out: the record of
\* a block is the index entry that points at it.
HolesInit ==
  /\ fd = TRUE
  /\ hdr = NoHeader
  /\ data = <<>>
  /\ cache = <<>>
  /\ cacheHoles = {}
  /\ blockSize = 0
  /\ maxCacheSize = MaxCacheSize
  /\ last = Idle
  /\ nops = 0
  /\ tasks = <<>>
  /\ truth = <<>>
  /\ \E n \in 1 .. MaxBlocks :
     \E H \in SUBSET (0 .. n - 1) \ {{}} :
        /\ blocks = n
        /\ blockHoles = H
        /\ items = [id \in (0 .. n - 1) \ H |-> ItemData(id, FALSE, -1)]

\* moveBlock on the index: the record read from fromBlock gets toBlock.
MoveIndexEntry(its, fromBlock, toBlock) ==
  LET ids == {id \in DOMAIN its : its[id].block = fromBlock}
  IN  IF ids = {} THEN its
      ELSE [its EXCEPT ![CHOOSE id \in ids : TRUE].block = toBlock]

RECURSIVE MoveIndexEntries(_, _, _, _)
MoveIndexEntries(its, order, holes, fromBlocks) ==
  IF order = <<>> THEN its
  ELSE MoveIndexEntries(
         MoveIndexEntry(its, fromBlocks[Head(order)], holes[Head(order)]),
         Tail(order), holes, fromBlocks)

\* fillHoles on the hole view, the moves completing in any order; `last`
\* keeps the moves as pairs <<fromBlock, block>>.
FillHolesOfBlocks ==
  /\ last = Idle
  /\ blockHoles # {}
  /\ \E holes \in {Keys(blockHoles)} :
     \E fromBlocks \in {getLastNBlocks(DB, Len(holes))} :
     \E order \in Orders(Moves(DB)) :
        /\ items' = MoveIndexEntries(items, order, holes, fromBlocks)
        /\ last' = [op |-> "fillHoles", ok |-> TRUE,
                    moves |-> {<<fromBlocks[i], holes[i]>> : i \in Moves(DB)}]
        /\ blocks' = blocks - Len(holes)
        /\ blockHoles' = {}
  /\ UNCHANGED <<fd, hdr, data, cache, cacheHoles, blockSize, maxCacheSize,
                 nops, truth, tasks>>

HolesSpec == HolesInit /\ [][FillHolesOfBlocks]_vars

\* C39: in fillHoles with hole set H every move reads from a live block
\* with index >= blocks - |H| and writes to a hole with index < blocks - |H|;
\* exactly the holes below blocks - |H| are filled and no two moves share a
\* source or a destination, so that the moves, in whatever order they
\* complete, leave every live record in a block of its own below
\* blocks - |H| and move no record that was already there.
C39_DisjointMoves ==
  [][last'.op = "fillHoles" =>
       LET mark == blocks - Cardinality(blockHoles)
           moves == last'.moves
       IN  /\ \A m \in moves :
                 /\ m[1] >= mark /\ m[1] < blocks /\ m[1] \notin blockHoles
                 /\ m[2] < mark /\ m[2] \in blockHoles
           /\ {m[2] : m \in moves} = {h \in blockHoles : h < mark}
           /\ \A m1, m2 \in moves :
                 m1 # m2 => (m1[1] # m2[1] /\ m1[2] # m2[2])
           /\ DOMAIN items' = DOMAIN items
           /\ {items'[id].block : id \in DOMAIN items'} = 0 .. mark - 1
           /\ \A id \in DOMAIN items :
                 items[id].block < mark => items'[id].block = items[id].block
    ]_vars

\* Three holes among the lower blocks have been filled by three moves.
C39_Witness ==
  last.op = "fillHoles" /\ Cardinality(last.moves) = 3 /\ blocks = 3
\* C40: remove with a query that matches no live record returns 0 and leaves
\* blocks, blockSize, the index, the cache, both hole sets and the file
\* unchanged: nothing is compacted and nothing is truncated.
C40_RemoveNothing ==
  [][(last = Idle /\ last'.op = "remove"
        /\ Matching(DB, last'.query) = {}) =>
       /\ last'.ok /\ last'.ret = 0
       /\ UNCHANGED dbvars]_vars

====
